---------------------------- MODULE Spec2Model ----------------------------
(***************************************************************************)
(* Model of the request-instrumentation core of the MCP server template:  *)
(* validate_path (the sandbox guard), the lazily initialised logging /     *)
(* metrics / rate-limiting facilities, the with_monitoring wrapper, and   *)
(* the tools behind it: run_command, run_shell_command, write_file and     *)
(* read_file.                                                              *)
(* The definitions follow src/mcp_server/__init__.py.                      *)
(***************************************************************************)
EXTENDS Integers, Sequences, FiniteSets, TLC

-----------------------------------------------------------------------------
(* Bounds of the model                                                     *)

\* longest caller path, counted in '/'-separated segments
MaxSegs == 4
\* number of invocations of wrapped operations
MaxInv == 3
\* largest configured rate limit (hits per window)
MaxLimit == 2
\* longest argument vector handed to run_command
MaxArgs == 2
\* longest text written to a file, in characters
MaxContent == 2
\* most direct calls of the built-in operations in one run
MaxCalls == 2
\* the number of entries the collector's histories are trimmed to (1000 in
\* the program)
HistoryCap == 2
\* most calls of record_request_start and of record_request_end
MaxStarts == 3
MaxEnds == 3
\* the last millisecond of the clock
MaxMs == 1
\* most calls of start_monitoring, and most runs of _check_health
MaxTasks == 2
MaxChecks == 3

-----------------------------------------------------------------------------
(* Paths.  A path string is the sequence of its '/'-separated segments     *)
(* (what str.split("/") returns), each segment a sequence of characters.   *)
(* "" is << <<>> >>, "/e" is << <<>>, E >>, "../w2" is << DotDot, W2 >>.   *)
(* A canonical absolute path is the sequence of its component names.       *)

Empty  == << >>
Dot    == << "." >>
DotDot == << ".", "." >>
W      == << "w" >>
W2     == << "w", "2" >>
E      == << "e" >>
L      == << "l" >>
\* a name holding a NUL character, which os.path.realpath refuses
Nul    == << "NUL" >>

\* the one segment of the string "\..\..\e": on POSIX a backslash is an
\* ordinary character of a name
BS     == << "\\", ".", ".", "\\", ".", ".", "\\", "e" >>

Segments == { Empty, Dot, DotDot, W, W2, E, L, Nul, BS }

\* the caller-supplied path strings of the model
PathInputs == UNION { [1..n -> Segments] : n \in 1..MaxSegs }

\* the sandbox roots of the model: /w and /e/w
Bases == { << W >>, << E, W >> }

\* the symbolic links of the filesystem: <root>/l points outside the root
SymlinkTarget(p) ==
    IF p = << W, L >> THEN << E >>
    ELSE IF p = << E, W, L >> THEN << E >>
    ELSE p

RECURSIVE Parts(_)
\* pathlib's parsing of the segments: empty and "." segments are dropped
Parts(segs) ==
    IF segs = << >> THEN << >>
    ELSE IF Head(segs) = Empty \/ Head(segs) = Dot THEN Parts(Tail(segs))
    ELSE << Head(segs) >> \o Parts(Tail(segs))

\* the string starts with '/'
IsAbsolute(segs) == Len(segs) >= 2 /\ segs[1] = Empty

\* Path(base_path) / path: an absolute right operand replaces the left one
JoinPath(base, segs) ==
    IF IsAbsolute(segs) THEN Parts(segs) ELSE base \o Parts(segs)

RECURSIVE Resolve(_, _)
\* Path.resolve(): components are consumed left to right, a symlink is
\* followed when it is reached and '..' then applies to its target;
\* '..' at the filesystem root stays at the root
Resolve(cur, rest) ==
    IF rest = << >> THEN cur
    ELSE IF Head(rest) = DotDot
         THEN Resolve(IF cur = << >> THEN << >> ELSE SubSeq(cur, 1, Len(cur) - 1),
                      Tail(rest))
         ELSE Resolve(SymlinkTarget(Append(cur, Head(rest))), Tail(rest))

RECURSIVE Str(_)
\* str(path) of a canonical path, as a sequence of characters
Str(canon) ==
    IF canon = << >> THEN << "/" >>
    ELSE IF Len(canon) = 1 THEN << "/" >> \o canon[1]
    ELSE Str(SubSeq(canon, 1, Len(canon) - 1)) \o << "/" >> \o canon[Len(canon)]

\* str.startswith
StartsWith(s, prefix) ==
    Len(prefix) <= Len(s) /\ SubSeq(s, 1, Len(prefix)) = prefix

HasNul(segs) == \E i \in 1..Len(segs) : segs[i] = Nul

Returned(p) == [status |-> "ok", type |-> "none", msg |-> << >>, path |-> p]
Raised(t, m) == [status |-> "raise", type |-> t, msg |-> m, path |-> << >>]

\* the containment test of validate_path
\* the prefix test made against the root followed by a separator
PathCheck_WithSeparator(resolved, root) ==
    StartsWith(Str(resolved), Str(root) \o << "/" >>)

PathCheck(resolved, root) == StartsWith(Str(resolved), Str(root))

\* the body of validate_path's try block
validate_path_try(path, base_path) ==
    IF HasNul(path) THEN Raised("ValueError", << "embedded null byte" >>)
    ELSE LET resolved == Resolve(<< >>, JoinPath(base_path, path))
             root     == Resolve(<< >>, base_path)
         IN  IF ~PathCheck(resolved, root)
             THEN Raised("MCPError", << "Path {path} is outside allowed directory" >>)
             ELSE Returned(resolved)

\* validate_path: every exception of the try block, the MCPError raised by
\* the containment test included, is caught and raised again as
\* MCPError("Invalid path {path}: " + str(e))
validate_path(path, base_path) ==
    LET r == validate_path_try(path, base_path)
    IN  IF r.status = "raise"
        THEN Raised("MCPError", << "Invalid path {path}: " >> \o r.msg)
        ELSE r

\* p is root itself or lies beneath it, component by component
Beneath(p, root) == Len(root) <= Len(p) /\ SubSeq(p, 1, Len(root)) = root

\* the canonical form of a caller path against a root
Canonical(path, base) == Resolve(<< >>, JoinPath(base, path))

-----------------------------------------------------------------------------
(* State                                                                   *)

VARIABLES
    vp_path, vp_base, vp_out,  \* one direct call of validate_path: arguments, outcome
    backend,        \* which optional packages can be imported
    workload,       \* the invocations the clients of this run may make
    infra,          \* the module globals logger, REQUEST_COUNT, RATE_LIMITER, ...
                    \* and the count of each initialisation effect
    request_count,  \* the values of the REQUEST_COUNT counter, by (tool, status)
    storage,        \* the limiter's MemoryStorage: hits of each key in this window
    files,          \* the regular files: canonical path -> bytes
    inv,            \* the invocations of wrapped operations
    rc,             \* one direct call of run_command: arguments, outcome
    fio,            \* one write_file / read_file pair: arguments, outcomes
    tl,             \* direct calls of the built-in operations: the number made,
                    \* the last one and its outcome
    mc,             \* the MetricsCollector: its fields and the request ids
                    \* handed out to callers
    hm              \* the HealthMonitor: its fields, its loop tasks and the
                    \* progress of stop_monitoring

vars == << vp_path, vp_base, vp_out, backend, workload, infra, request_count,
           storage, files, inv, rc, fio, tl, mc, hm >>
pathVars == << vp_path, vp_base, vp_out >>
mwVars   == << backend, workload, infra, request_count, storage, files, inv >>
cmdVars  == << rc, fio, tl, mc, hm >>

NotCalled == [status |-> "none", type |-> "none", msg |-> << >>, path |-> << >>]

-----------------------------------------------------------------------------
(* Optional features                                                       *)

\* _check_structlog: both structlog and prometheus_client import
check_structlog == backend.structlog /\ backend.prometheus_client

\* _check_limits reporting the package present when it is not
check_limits_Always == TRUE

\* _check_limits
check_limits == backend.limits

STRUCTURED_LOGGING == check_structlog
METRICS_ENABLED    == check_structlog
RATE_LIMITING      == check_limits

WORKSPACE_PATH == << W >>

\* MetricsCollector.__init__
NewCollector ==
    [ request_history |-> << >>, error_history |-> << >>, response_times |-> << >>,
      active_requests |-> 0, total_requests |-> 0,
      now |-> 0,            \* time.time() in milliseconds
      handles |-> << >>,    \* the ids returned by record_request_start, each
                            \* with the number of the request it was returned
                            \* for and whether its holder has ended it
      end_calls |-> 0,      \* calls of record_request_end made
      stray_calls |-> 0 ]   \* of which with an unknown or already ended id

\* HealthMonitor.__init__
NewMonitor ==
    [ running |-> FALSE, monitor_task |-> 0, alerts |-> 0,
      tasks |-> << >>,      \* the tasks created for _monitor_loop
      stop_pc |-> "idle",   \* stop_monitoring: idle or awaiting a task
      stop_target |-> 0,
      stopped |-> FALSE,    \* stop_monitoring completed, no start since
      checks |-> 0,         \* runs of _check_health
      late_checks |-> 0,    \* of which after stop_monitoring completed
      late_alerts |-> 0 ]

\* no built-in operation called
IdleTools ==
    [ n |-> 0, prev_failed |-> FALSE,
      last |-> [op |-> "none", path |-> << >>,
                out |-> [status |-> "none", type |-> "none", msg |-> << >>,
                         value |-> "none"]] ]

\* no file operation made
IdleFile ==
    [ pc |-> "new", path |-> << Empty >>, content |-> << >>, max_size |-> 0,
      w |-> [status |-> "none", type |-> "none", msg |-> << >>, value |-> "none"],
      r |-> [status |-> "none", type |-> "none", msg |-> << >>, value |-> "none"],
      read_calls |-> 0 ]

\* run_command not called
IdleCmd ==
    [ called |-> FALSE, argv |-> << >>, proc |-> [kind |-> "oserror", code |-> 0],
      out |-> [status |-> "none", type |-> "none", msg |-> << >>, value |-> "none"],
      spawn_calls |-> 0, events |-> << >> ]

-----------------------------------------------------------------------------
(* Lazy infrastructure.  Each setup function maps the globals to the       *)
(* globals after the call.                                                 *)

InfraInit ==
    [ logger             |-> "None",
      REQUEST_COUNT      |-> FALSE,   \* TRUE once the three instruments exist
      RATE_LIMITER       |-> FALSE,   \* TRUE once the limiter exists
      DEFAULT_RATE_LIMIT |-> 0,
      logging_configs    |-> 0,       \* structlog.configure / logging.basicConfig calls
      instrument_sets    |-> 0,       \* registrations of the three instruments
      port_binds         |-> 0,       \* successful start_http_server calls
      limiters           |-> 0,       \* FixedWindowRateLimiter constructions
      init_logs          |-> 0,       \* log entries written by the setup functions
      import_error       |-> FALSE ]  \* an import of a missing package was attempted

\* outcomes of start_http_server(METRICS_PORT): the port is 0, the bind
\* succeeds, the bind fails
PortOutcomes == { "disabled", "bound", "in_use" }

setup_logging(G) ==
    IF G.logger # "None" THEN G
    ELSE [G EXCEPT !.logger = IF STRUCTURED_LOGGING THEN "structlog" ELSE "stdlib",
                   !.logging_configs = @ + 1]

LogInit(G) == [setup_logging(G) EXCEPT !.init_logs = @ + 1]

\* setup_metrics without the `REQUEST_COUNT is not None` guard
setup_metrics_NoGuard(G, port) ==
    IF ~METRICS_ENABLED THEN G
    ELSE LET G1 == [G EXCEPT !.REQUEST_COUNT = TRUE, !.instrument_sets = @ + 1]
         IN  IF port = "disabled" THEN G1
             ELSE IF port = "bound"
                  THEN LogInit([G1 EXCEPT !.port_binds = @ + 1])
                  ELSE LogInit(G1)

setup_metrics(G, port) ==
    IF ~METRICS_ENABLED \/ G.REQUEST_COUNT THEN G
    ELSE IF ~backend.prometheus_client THEN [G EXCEPT !.import_error = TRUE]
    ELSE LET G1 == [G EXCEPT !.REQUEST_COUNT = TRUE, !.instrument_sets = @ + 1]
         IN  IF port = "disabled" THEN G1
             ELSE IF port = "bound"
                  THEN LogInit([G1 EXCEPT !.port_binds = @ + 1])
                  ELSE LogInit(G1)

setup_rate_limiting(G, limit) ==
    IF G.RATE_LIMITER THEN G
    ELSE IF RATE_LIMITING
         THEN IF ~backend.limits THEN [G EXCEPT !.import_error = TRUE]
              ELSE LogInit([G EXCEPT !.RATE_LIMITER = TRUE,
                                     !.DEFAULT_RATE_LIMIT = limit,
                                     !.limiters = @ + 1])
         ELSE LogInit(G)

\* the first three statements of the wrapper
LazyInit(G, limit, port) ==
    setup_logging(setup_metrics(setup_rate_limiting(G, limit), port))

-----------------------------------------------------------------------------
(* Wrapped operations                                                      *)

Clients == { "default", "c1" }
NoClient == "absent"

\* write_file targets: "w" (inside the sandbox) and "../e" (outside)
FilePaths == { << W >>, << DotDot, E >> }

\* the invocations of the model: write_file(file_path, content) and the
\* test suite's test_function(message, client_id="default"); the tool, its
\* path argument, and the client_id keyword argument ("absent" when none is
\* passed)
Requests ==
    { [tool |-> "write_file", path |-> p, client_kw |-> NoClient,
       client_pos |-> NoClient] : p \in FilePaths }
    \cup { [tool |-> "test_function", path |-> << >>, client_kw |-> c,
            client_pos |-> NoClient] : c \in { NoClient, "c1" } }

\* invocations that name their client: test_function("x"),
\* test_function("x", client_id="c1"), test_function("x", "c1"), and a
\* second operation, write_file("w", ...)
KeyRequests ==
    { [tool |-> "test_function", path |-> << >>, client_kw |-> NoClient,
       client_pos |-> NoClient],
      [tool |-> "test_function", path |-> << >>, client_kw |-> "c1",
       client_pos |-> NoClient],
      [tool |-> "test_function", path |-> << >>, client_kw |-> NoClient,
       client_pos |-> "c1"],
      [tool |-> "write_file", path |-> << W >>, client_kw |-> NoClient,
       client_pos |-> NoClient] }

\* one operation called by two clients: test_function("x") and
\* test_function("x", client_id="c1")
WindowRequests ==
    { [tool |-> "test_function", path |-> << >>, client_kw |-> c,
       client_pos |-> NoClient] : c \in { NoClient, "c1" } }

ToolNames == { "write_file", "test_function", "run_shell_command", "health_check" }
Statuses  == { "success", "error", "rate_limited" }

ImplReturned(v) == [status |-> "ok", type |-> "none", msg |-> << >>, value |-> v]
ImplRaised(t, m) == [status |-> "raise", type |-> t, msg |-> m, value |-> "none"]
NoOutcome == [status |-> "none", type |-> "none", msg |-> << >>, value |-> "none"]

\* The filesystem: the directories that exist, and `files`, which maps the
\* canonical path of each regular file to its bytes.
Directories == { << >>, << W >>, << E >>, << E, W >>, << W2 >> }

Exists(p, fs) == p \in Directories \/ p \in DOMAIN fs

\* Text is a sequence of characters; "eacute" is a character outside ASCII.
Chars == { "a", "eacute", "\n", "\r" }

RECURSIVE Flatten(_)
Flatten(seqs) ==
    IF seqs = << >> THEN << >> ELSE Head(seqs) \o Flatten(Tail(seqs))

\* os.linesep on POSIX
Linesep == << "\n" >>

\* what a text-mode write (newline=None) does to the text
WriteNewlines(text) ==
    Flatten([k \in 1..Len(text) |-> IF text[k] = "\n" THEN Linesep ELSE << text[k] >>])

\* the UTF-8 bytes of a character
UTF8(c) == IF c = "eacute" THEN << "0xC3", "0xA9" >> ELSE << c >>

EncodeUTF8(text) == Flatten([k \in 1..Len(text) |-> UTF8(text[k])])

\* every byte is read as one character
DecodeUTF8_Latin1(bytes) == [ok |-> TRUE, text |-> bytes]

RECURSIVE DecodeUTF8(_)
DecodeUTF8(bytes) ==
    IF bytes = << >> THEN [ok |-> TRUE, text |-> << >>]
    ELSE IF Head(bytes) = "0xC3"
    THEN IF Len(bytes) >= 2 /\ bytes[2] = "0xA9"
         THEN LET r == DecodeUTF8(SubSeq(bytes, 3, Len(bytes)))
              IN  [ok |-> r.ok, text |-> << "eacute" >> \o r.text]
         ELSE [ok |-> FALSE, text |-> << >>]
    ELSE IF Head(bytes) = "0xA9" THEN [ok |-> FALSE, text |-> << >>]
    ELSE LET r == DecodeUTF8(Tail(bytes))
         IN  [ok |-> r.ok, text |-> << Head(bytes) >> \o r.text]

\* what a text-mode read (newline=None, universal newlines) does to the
\* decoded text: "\r\n" and "\r" become "\n"
RECURSIVE ReadNewlines(_)
ReadNewlines(text) ==
    IF text = << >> THEN << >>
    ELSE IF Head(text) = "\r"
    THEN IF Len(text) >= 2 /\ text[2] = "\n"
         THEN << "\n" >> \o ReadNewlines(SubSeq(text, 3, Len(text)))
         ELSE << "\n" >> \o ReadNewlines(Tail(text))
    ELSE << Head(text) >> \o ReadNewlines(Tail(text))

\* `except Exception as e: raise MCPError(prefix + str(e))` catching only
\* MCPError
Rewrap_OnlyMCPError(prefix, e) ==
    IF e.type = "MCPError" THEN ImplRaised("MCPError", << prefix >> \o e.msg)
    ELSE ImplRaised(e.type, e.msg)

\* `except Exception as e: raise MCPError(prefix + str(e))`
Rewrap(prefix, e) == ImplRaised("MCPError", << prefix >> \o e.msg)

\* write_file_impl(file_path, content): the result and the files afterwards;
\* fault: the filesystem refuses the operation (PermissionError).
\* The file paths of the model lie directly in an existing directory, so
\* path.parent.mkdir(parents=True, exist_ok=True) creates nothing.
write_file_impl(path, content, fs, fault) ==
    LET v == validate_path(path, WORKSPACE_PATH)
        failed(e) == [out |-> Rewrap("Failed to write file: ", e), files |-> fs]
    IN  IF v.status = "raise" THEN failed(v)
        ELSE IF fault
        THEN failed(ImplRaised("PermissionError", << "[Errno 13] Permission denied" >>))
        ELSE IF v.path \in Directories
        THEN failed(ImplRaised("IsADirectoryError", << "[Errno 21] Is a directory" >>))
        ELSE [out |-> ImplReturned("Success"),
              files |-> [p \in DOMAIN fs \cup { v.path } |->
                            IF p = v.path THEN EncodeUTF8(WriteNewlines(content))
                            ELSE fs[p]]]

ReadResult(content, size) == [content |-> content, size |-> size, status |-> "Success"]

\* the size test made with >= in place of >
TooLarge_AtLimit(file_size, max_size) == file_size >= max_size

\* file_size > max_size
TooLarge(file_size, max_size) == file_size > max_size

\* read_file_impl(file_path, max_size): the outcome and the number of
\* path.read_text calls made
read_file_impl(path, max_size, fs, fault) ==
    LET v == validate_path(path, WORKSPACE_PATH)
        failed(e, n) == [out |-> Rewrap("Failed to read file: ", e), read_calls |-> n]
    IN  IF v.status = "raise" THEN failed(v, 0)
        ELSE IF ~Exists(v.path, fs)
        THEN failed(ImplRaised("MCPError", << "File {file_path} does not exist" >>), 0)
        ELSE IF v.path \notin DOMAIN fs
        THEN failed(ImplRaised("MCPError", << "{file_path} is not a file" >>), 0)
        ELSE IF TooLarge(Len(fs[v.path]), max_size)
        THEN failed(ImplRaised("MCPError",
                      << "File too large: {file_size} bytes (max: {max_size})" >>), 0)
        ELSE IF fault
        THEN failed(ImplRaised("PermissionError", << "[Errno 13] Permission denied" >>), 1)
        ELSE LET d == DecodeUTF8(fs[v.path])
             IN  IF ~d.ok
                 THEN [out |-> ImplRaised("MCPError",
                                 << "File {file_path} is not valid UTF-8 text" >>),
                       read_calls |-> 1]
                 ELSE [out |-> ImplReturned(ReadResult(ReadNewlines(d.text),
                                                       Len(fs[v.path]))),
                       read_calls |-> 1]

\* the entries directly inside directory d among the paths ps
Entries(d, ps) ==
    { p[Len(p)] : p \in { q \in ps : Len(q) = Len(d) + 1 /\ SubSeq(q, 1, Len(d)) = d } }

\* list_files_impl(directory)
list_files_impl(directory, fs, fault) ==
    LET v == validate_path(directory, WORKSPACE_PATH)
        failed(e) == Rewrap("Failed to list directory: ", e)
    IN  IF v.status = "raise" THEN failed(v)
        ELSE IF ~Exists(v.path, fs)
        THEN failed(ImplRaised("MCPError", << "Directory {directory} does not exist" >>))
        ELSE IF v.path \notin Directories
        THEN failed(ImplRaised("MCPError", << "{directory} is not a directory" >>))
        ELSE IF fault
        THEN failed(ImplRaised("PermissionError", << "[Errno 13] Permission denied" >>))
        ELSE ImplReturned([ files |-> Entries(v.path, DOMAIN fs),
                            directories |-> Entries(v.path, Directories),
                            status |-> "Success" ])

\* read_file_resource(path)
read_file_resource(path, fs, fault) ==
    LET v == validate_path(path, WORKSPACE_PATH)
        failed(e) == Rewrap("Failed to read file resource: ", e)
    IN  IF v.status = "raise" THEN failed(v)
        ELSE IF ~Exists(v.path, fs)
        THEN failed(ImplRaised("MCPError", << "File {path} does not exist" >>))
        ELSE IF v.path \notin DOMAIN fs
        THEN failed(ImplRaised("MCPError", << "{path} is not a file" >>))
        ELSE IF fault
        THEN failed(ImplRaised("PermissionError", << "[Errno 13] Permission denied" >>))
        ELSE LET d == DecodeUTF8(fs[v.path])
             IN  IF ~d.ok
                 THEN failed(ImplRaised("UnicodeDecodeError",
                               << "'utf-8' codec can't decode byte" >>))
                 ELSE ImplReturned(ReadNewlines(d.text))

\* Strings of commands are sequences of characters.  Whitespace is what
\* str.split() splits on and str.isspace() accepts.
Whitespace == { " ", "\t" }

IsBlank(str) == \A k \in 1..Len(str) : str[k] \in Whitespace

\* what subprocess.run does with the command: the process exits with a return
\* code, runs past the timeout (TimeoutExpired), or cannot be started or
\* waited for (OSError and the like)
ExitCodes == { 0, 1, -9 }
ProcOutcomes ==
    { [kind |-> "exit", code |-> c] : c \in ExitCodes }
    \cup { [kind |-> "timeout", code |-> 0], [kind |-> "oserror", code |-> 0] }

\* a blank program name cannot be started: subprocess.run raises
\* FileNotFoundError
ArgStrings == { << >>, << " " >>, << "x" >> }
Argvs == UNION { [1..n -> ArgStrings] : n \in 0..MaxArgs }

ProcChoices(command) ==
    IF command = << >> \/ IsBlank(command[1])
    THEN { [kind |-> "oserror", code |-> 0] }
    ELSE ProcOutcomes

\* success is reported for every return code that is not negative
CommandResult_NonNegative(code) ==
    [ success |-> (code >= 0), return_code |-> code,
      status |-> IF code >= 0 THEN "Success" ELSE "Failed" ]

CommandResult(code) ==
    [ success |-> (code = 0), return_code |-> code,
      status |-> IF code = 0 THEN "Success" ELSE "Failed" ]

\* run_command(command, cwd): the outcome, the number of subprocess.run
\* calls, the log entries and metric samples written, and the globals
\* afterwards; proc is what subprocess.run does if it is called
run_command(command, proc, G) ==
    LET G1 == setup_logging(G)
        started == IF STRUCTURED_LOGGING THEN << "log:command_execution_started" >>
                   ELSE << "log:Executing command" >>
        metric(status) == IF METRICS_ENABLED THEN << "metric:command:" \o status >>
                          ELSE << >>
        errlog(name) == IF STRUCTURED_LOGGING THEN << "log:" \o name >> ELSE << >>
    IN  IF command = << >> \/ command[1] = << >>
        THEN [ out |-> ImplRaised("MCPError", << "Empty or invalid command provided" >>),
               spawn_calls |-> 0, events |-> << >>, infra |-> G1 ]
        ELSE IF METRICS_ENABLED /\ ~G1.REQUEST_COUNT
        THEN \* COMMAND_EXECUTIONS is None: .labels fails in the try block or in
             \* the handler that caught the process error, and leaves the handler
             [ out |-> ImplRaised("AttributeError",
                                  << "'NoneType' object has no attribute 'labels'" >>),
               spawn_calls |-> 1, events |-> started, infra |-> G1 ]
        ELSE IF proc.kind = "exit"
        THEN [ out |-> ImplReturned(CommandResult(proc.code)),
               spawn_calls |-> 1,
               events |-> started
                          \o metric(IF proc.code = 0 THEN "success" ELSE "failed")
                          \o (IF STRUCTURED_LOGGING
                              THEN << "log:command_execution_completed" >> ELSE << >>),
               infra |-> G1 ]
        ELSE IF proc.kind = "timeout"
        THEN [ out |-> ImplRaised("MCPError",
                         << "Command timed out after {timeout} seconds: {command_str}" >>),
               spawn_calls |-> 1,
               events |-> started \o metric("timeout")
                          \o errlog("command_execution_timeout"),
               infra |-> G1 ]
        ELSE [ out |-> ImplRaised("MCPError",
                         << "Command execution failed: {command_str} - ", "{str(e)}" >>),
               spawn_calls |-> 1,
               events |-> started \o metric("error")
                          \o errlog("command_execution_error"),
               infra |-> G1 ]

\* the command string is handed on whole, as one argument
Split_Whole(str) == << str >>

\* str.split(): the maximal runs of characters that are not whitespace
RECURSIVE SplitAcc(_, _)
SplitAcc(str, word) ==
    IF str = << >> THEN (IF word = << >> THEN << >> ELSE << word >>)
    ELSE IF Head(str) \in Whitespace
    THEN (IF word = << >> THEN << >> ELSE << word >>) \o SplitAcc(Tail(str), << >>)
    ELSE SplitAcc(Tail(str), Append(word, Head(str)))

Split(str) == SplitAcc(str, << >>)

\* run_shell_command_impl(command, directory): the outcome and the log
\* entries, metric samples and calls made on the way
run_shell_command_impl(command, directory, proc, fs, G) ==
    LET v == validate_path(directory, WORKSPACE_PATH)
        cmd_parts == Split(command)
        failed(e, ev) ==
            [out |-> Rewrap("Failed to execute command: ", e), events |-> ev]
    IN  IF v.status = "raise" THEN failed(v, << >>)
        ELSE IF ~Exists(v.path, fs)
        THEN failed(ImplRaised("MCPError", << "Directory {directory} does not exist" >>),
                    << >>)
        ELSE IF cmd_parts = << >>
        THEN failed(ImplRaised("MCPError", << "Empty command provided" >>), << >>)
        ELSE LET r == run_command(cmd_parts, proc, G)
             IN  IF r.out.status = "ok"
                 THEN [out |-> r.out, events |-> << "call:run_command" >> \o r.events]
                 ELSE failed(r.out, << "call:run_command" >> \o r.events)

\* invocations of run_shell_command: an empty and a whitespace-only command
\* in the sandbox root ("."), an empty command in a directory that does not
\* exist ("w"), and the command "x y" with each thing the process can do
ShellRequests ==
    { [tool |-> "run_shell_command", path |-> << Dot >>, client_kw |-> NoClient,
       client_pos |-> NoClient, command |-> c, proc |-> [kind |-> "oserror", code |-> 0]]
        : c \in { << >>, << " ", "\t" >> } }
    \cup { [tool |-> "run_shell_command", path |-> << W >>, client_kw |-> NoClient,
            client_pos |-> NoClient, command |-> << >>,
            proc |-> [kind |-> "oserror", code |-> 0]] }
    \cup { [tool |-> "run_shell_command", path |-> << Dot >>, client_kw |-> NoClient,
            client_pos |-> NoClient, command |-> << "x", " ", "y" >>, proc |-> o]
              : o \in { [kind |-> "exit", code |-> 0], [kind |-> "timeout", code |-> 0],
                        [kind |-> "oserror", code |-> 0] } }

\* each feature is reported by the availability of its own package
health_check_impl_OwnBackend ==
    ImplReturned([ status |-> "healthy",
                   rate_limiting_enabled |-> backend.limits,
                   metrics_enabled |-> backend.prometheus_client,
                   structured_logging |-> backend.structlog ])

\* health_check_impl(): the feature flags of the returned dict
health_check_impl ==
    ImplReturned([ status |-> "healthy",
                   rate_limiting_enabled |-> RATE_LIMITING,
                   metrics_enabled |-> METRICS_ENABLED,
                   structured_logging |-> STRUCTURED_LOGGING ])

\* invocations of health_check, next to another tool
HealthRequests ==
    { [tool |-> t, path |-> << >>, client_kw |-> NoClient, client_pos |-> NoClient]
        : t \in { "health_check", "test_function" } }

\* func(*args, **kwargs) for each wrapped function of the model: the outcome,
\* the files afterwards, and what the function logged and called
CallImpl(req, fs, G) ==
    IF req.tool = "write_file"
    THEN LET r == write_file_impl(req.path, << "a" >>, fs, FALSE)
         IN  [out |-> r.out, files |-> r.files, events |-> << >>]
    ELSE IF req.tool = "run_shell_command"
    THEN LET r == run_shell_command_impl(req.command, req.path, req.proc, fs, G)
         IN  [out |-> r.out, files |-> fs, events |-> r.events]
    ELSE IF req.tool = "health_check"
    THEN [out |-> health_check_impl, files |-> fs, events |-> << >>]
    ELSE [out |-> ImplReturned("Processed"), files |-> fs, events |-> << >>]

\* client_id = kwargs.get("client_id", "default")
ClientId(req) == IF req.client_kw = NoClient THEN "default" ELSE req.client_kw

\* f"{tool_name}:{client_id}"
RateLimitKey(tool, client_id) == << tool, client_id >>

Keys == ToolNames \X Clients

\* the guard of the rate check, testing `RATE_LIMITER is None`
RateCheckActive_IsNone(G) == RATE_LIMITING /\ ~G.RATE_LIMITER

RateCheckActive(G) == RATE_LIMITING /\ G.RATE_LIMITER

\* FixedWindowRateLimiter.hit: the key's counter is incremented, and the hit
\* is permitted iff the incremented count is within the limit
\* the increment is lost
HitStorage_Lost(st, key) == st

HitStorage(st, key) == [st EXCEPT ![key] = @ + 1]
\* the count is compared before it is incremented
HitAllowed_PreIncrement(st, key, limit) == st[key] <= limit

HitAllowed(st, key, limit) == HitStorage(st, key)[key] <= limit

\* what the wrapper hands to its caller
wrapper_return(result) == result
\* the error is wrapped in a new MCPError instead of raised again
wrapper_reraise_Wrapped(e) ==
    ImplRaised("MCPError", << "Tool failed: " >> \o e.msg)

wrapper_reraise(e) == e

IdleInv ==
    [ pc |-> "idle",
      req |-> [tool |-> "none", path |-> << >>, client_kw |-> NoClient,
               client_pos |-> NoClient],
      key |-> << >>, trace |-> << >>, events |-> << >>, impl_calls |-> 0,
      impl_outcome |-> NoOutcome, outcome |-> NoOutcome,
      ordinal |-> 0, in_window |-> FALSE ]

Terminal == { "REJECTED", "COMPLETED", "FAILED" }

\* the log entry written at the start of an admitted invocation
StartEvents == IF STRUCTURED_LOGGING THEN << "log:tool_request_started" >> ELSE << >>

SuccessEvents ==
    (IF METRICS_ENABLED THEN << "metric:success" >> ELSE << >>)
    \o (IF STRUCTURED_LOGGING THEN << "log:tool_request_completed" >> ELSE << >>)

ErrorEvents ==
    (IF METRICS_ENABLED THEN << "metric:error" >> ELSE << >>)
    \o (IF STRUCTURED_LOGGING THEN << "log:tool_request_failed" >>
        ELSE << "log:Tool failed" >>)

RejectEvents ==
    (IF METRICS_ENABLED THEN << "metric:rate_limited" >> ELSE << >>)
    \o (IF STRUCTURED_LOGGING THEN << "log:rate_limit_exceeded" >>
        ELSE << "log:Rate limit exceeded" >>)

\* a rejection is counted as an error as well, as if RateLimitExceeded were
\* raised inside the try block
Count_RejectedAsError(counts, tool, status) ==
    IF ~METRICS_ENABLED THEN counts
    ELSE IF status = "rate_limited"
    THEN [counts EXCEPT ![<< tool, "rate_limited" >>] = @ + 1,
                        ![<< tool, "error" >>] = @ + 1]
    ELSE [counts EXCEPT ![<< tool, status >>] = @ + 1]

Count(counts, tool, status) ==
    IF METRICS_ENABLED THEN [counts EXCEPT ![<< tool, status >>] = @ + 1] ELSE counts

\* hits of this key made so far in the current window, counted from the
\* invocations' own records (in_window: the invocation's rate check was made
\* in the window that is current now; ordinal: its position among the hits
\* of its key in that window)
HitsSoFar(key) ==
    Cardinality({ j \in 1..MaxInv :
                    /\ inv[j].in_window
                    /\ << inv[j].req.tool, ClientId(inv[j].req) >> = key })

\* MCP_RATE_LIMIT and the outcome of binding MCP_METRICS_PORT are read when
\* the setup function that uses them runs past its guard, and only then
LimitChoices ==
    IF RATE_LIMITING /\ ~infra.RATE_LIMITER THEN 1..MaxLimit ELSE { 1 }
PortChoices ==
    IF METRICS_ENABLED /\ ~infra.REQUEST_COUNT THEN PortOutcomes ELSE { "disabled" }

-----------------------------------------------------------------------------
(* Actions                                                                 *)

InitWrapper(reqs) ==
    /\ backend \in [structlog : BOOLEAN, prometheus_client : BOOLEAN, limits : BOOLEAN]
    /\ workload = reqs
    /\ infra = InfraInit
    /\ request_count = [k \in ToolNames \X Statuses |-> 0]
    /\ storage = [k \in Keys |-> 0]
    /\ files = << >>
    /\ inv = [i \in 1..MaxInv |-> IdleInv]

\* wrapper(*args, **kwargs) up to `await func(...)`: lazy initialisation,
\* the rate check, and the start record.  Invocations arrive in index order.
Invoke(i) ==
    /\ inv[i].pc = "idle"
    /\ IF i = 1 THEN TRUE ELSE inv[i - 1].pc # "idle"
    /\ \E req \in workload, limit \in LimitChoices, port \in PortChoices :
         LET G   == LazyInit(infra, limit, port)
             key == RateLimitKey(req.tool, ClientId(req))
             rec == [inv[i] EXCEPT !.req = req, !.trace = << "RECEIVED" >>]
         IN  /\ infra' = G
             /\ IF G.import_error
                THEN /\ inv' = [inv EXCEPT ![i] =
                                  [rec EXCEPT !.pc = "FAILED",
                                              !.trace = @ \o << "FAILED" >>,
                                              !.outcome = ImplRaised("ImportError", << >>)]]
                     /\ UNCHANGED << storage, request_count >>
                ELSE IF RateCheckActive(G)
                THEN /\ storage' = HitStorage(storage, key)
                     /\ IF HitAllowed(storage, key, G.DEFAULT_RATE_LIMIT)
                        THEN /\ inv' = [inv EXCEPT ![i] =
                                  [rec EXCEPT !.pc = "EXECUTING",
                                              !.trace = @ \o << "RATE_CHECK", "EXECUTING" >>,
                                              !.events = StartEvents,
                                              !.key = key,
                                              !.ordinal = HitsSoFar(<< req.tool, ClientId(req) >>) + 1,
                                              !.in_window = TRUE]]
                             /\ UNCHANGED request_count
                        ELSE /\ inv' = [inv EXCEPT ![i] =
                                  [rec EXCEPT !.pc = "REJECTED",
                                              !.trace = @ \o << "RATE_CHECK", "REJECTED" >>,
                                              !.events = RejectEvents,
                                              !.key = key,
                                              !.outcome = ImplRaised("RateLimitExceeded",
                                                            << "Rate limit exceeded for {tool_name}" >>),
                                              !.ordinal = HitsSoFar(<< req.tool, ClientId(req) >>) + 1,
                                              !.in_window = TRUE]]
                             /\ request_count' = Count(request_count, req.tool, "rate_limited")
                ELSE /\ inv' = [inv EXCEPT ![i] =
                                  [rec EXCEPT !.pc = "EXECUTING",
                                              !.trace = @ \o << "RATE_CHECK", "EXECUTING" >>,
                                              !.events = StartEvents]]
                     /\ UNCHANGED << storage, request_count >>
    /\ UNCHANGED << backend, workload, files, pathVars, cmdVars >>

\* `await func(...)` and the rest of the wrapper: the implementation runs,
\* the outcome is counted and logged, and the result is returned or the
\* error raised again
FinishFrom(i, from) ==
    /\ inv[i].pc \in from
    /\ LET r == CallImpl(inv[i].req, files, infra)
       IN  /\ files' = r.files
           /\ IF r.out.status = "ok"
              THEN /\ inv' = [inv EXCEPT ![i] =
                              [@ EXCEPT !.pc = "COMPLETED",
                                        !.trace = @ \o << "COMPLETED" >>,
                                        !.events = @ \o << "call:func" >> \o r.events \o SuccessEvents,
                                        !.impl_calls = @ + 1,
                                        !.impl_outcome = r.out,
                                        !.outcome = wrapper_return(r.out)]]
                   /\ request_count' = Count(request_count, inv[i].req.tool, "success")
              ELSE /\ inv' = [inv EXCEPT ![i] =
                              [@ EXCEPT !.pc = "FAILED",
                                        !.trace = @ \o << "FAILED" >>,
                                        !.events = @ \o << "call:func" >> \o r.events \o ErrorEvents,
                                        !.impl_calls = @ + 1,
                                        !.impl_outcome = r.out,
                                        !.outcome = wrapper_reraise(r.out)]]
                   /\ request_count' = Count(request_count, inv[i].req.tool, "error")
    /\ UNCHANGED << backend, workload, infra, storage, pathVars, cmdVars >>

\* a failed invocation is run again
Finish_Retry(i) == FinishFrom(i, { "EXECUTING", "FAILED" })

Finish(i) == FinishFrom(i, { "EXECUTING" })

\* a fixed window boundary passes: every key of the storage expires
Tick ==
    /\ storage' = [k \in Keys |-> 0]
    /\ inv' = [i \in 1..MaxInv |-> [inv[i] EXCEPT !.in_window = FALSE]]
    /\ UNCHANGED << backend, workload, infra, request_count, files, pathVars, cmdVars >>

\* the window of one key ends but its count is kept
TickKey_KeepCount(k) ==
    /\ storage[k] > 0
    /\ inv' = [i \in 1..MaxInv |->
                 IF inv[i].key = k THEN [inv[i] EXCEPT !.in_window = FALSE] ELSE inv[i]]
    /\ UNCHANGED << backend, workload, infra, request_count, storage, files,
                    pathVars, cmdVars >>

\* the fixed window of one key ends: MemoryStorage expires the key, whose
\* window began at its first hit
TickKey(k) ==
    /\ storage[k] > 0
    /\ storage' = [storage EXCEPT ![k] = 0]
    /\ inv' = [i \in 1..MaxInv |->
                 IF inv[i].key = k THEN [inv[i] EXCEPT !.in_window = FALSE] ELSE inv[i]]
    /\ UNCHANGED << backend, workload, infra, request_count, files, pathVars, cmdVars >>

InitMw == InitWrapper(Requests)

Init ==
    /\ InitMw
    /\ vp_path = << Empty >>
    /\ vp_base = WORKSPACE_PATH
    /\ vp_out = NotCalled
    /\ rc = IdleCmd
    /\ fio = IdleFile
    /\ tl = IdleTools
    /\ mc = NewCollector
    /\ hm = NewMonitor

Next ==
    \/ \E i \in 1..MaxInv : Invoke(i)
    \/ \E i \in 1..MaxInv : Finish(i)
    \/ Tick

Spec == Init /\ [][Next]_vars

\* the wrapper with the limits backend installed, every key's window ending
\* on its own
InitWindow ==
    /\ InitWrapper(WindowRequests)
    /\ backend.limits
    /\ vp_path = << Empty >>
    /\ vp_base = WORKSPACE_PATH
    /\ vp_out = NotCalled
    /\ rc = IdleCmd
    /\ fio = IdleFile
    /\ tl = IdleTools
    /\ mc = NewCollector
    /\ hm = NewMonitor

NextWindow ==
    \/ \E i \in 1..MaxInv : Invoke(i)
    \/ \E i \in 1..MaxInv : Finish(i)
    \/ \E k \in Keys : TickKey(k)

SpecWindow == InitWindow /\ [][NextWindow]_vars

\* the wrapper serving clients that name themselves
InitKey ==
    /\ InitWrapper(KeyRequests)
    /\ vp_path = << Empty >>
    /\ vp_base = WORKSPACE_PATH
    /\ vp_out = NotCalled
    /\ rc = IdleCmd
    /\ fio = IdleFile
    /\ tl = IdleTools
    /\ mc = NewCollector
    /\ hm = NewMonitor

SpecKey == InitKey /\ [][Next]_vars

\* the wrapper serving run_shell_command, in a server without the limits
\* package (the rate check of the wrapper is exercised by Spec and SpecKey)
InitShell ==
    /\ InitWrapper(ShellRequests)
    /\ ~backend.limits
    /\ vp_path = << Empty >>
    /\ vp_base = WORKSPACE_PATH
    /\ vp_out = NotCalled
    /\ rc = IdleCmd
    /\ fio = IdleFile
    /\ tl = IdleTools
    /\ mc = NewCollector
    /\ hm = NewMonitor

SpecShell == InitShell /\ [][Next]_vars

\* the wrapper serving health_check
InitHealth ==
    /\ InitWrapper(HealthRequests)
    /\ vp_path = << Empty >>
    /\ vp_base = WORKSPACE_PATH
    /\ vp_out = NotCalled
    /\ rc = IdleCmd
    /\ fio = IdleFile
    /\ tl = IdleTools
    /\ mc = NewCollector
    /\ hm = NewMonitor

SpecHealth == InitHealth /\ [][Next]_vars

-----------------------------------------------------------------------------
(* validate_path on its own                                                *)

InitPath ==
    /\ vp_path \in PathInputs
    /\ vp_base \in Bases
    /\ vp_out = NotCalled
    /\ rc = IdleCmd
    /\ fio = IdleFile
    /\ tl = IdleTools
    /\ mc = NewCollector
    /\ hm = NewMonitor
    /\ backend = [structlog |-> FALSE, prometheus_client |-> FALSE, limits |-> FALSE]
    /\ workload = Requests
    /\ infra = InfraInit
    /\ request_count = [k \in ToolNames \X Statuses |-> 0]
    /\ storage = [k \in Keys |-> 0]
    /\ files = << >>
    /\ inv = [i \in 1..MaxInv |-> IdleInv]

\* one call validate_path(vp_path, vp_base)
CallValidatePath ==
    /\ vp_out = NotCalled
    /\ vp_out' = validate_path(vp_path, vp_base)
    /\ UNCHANGED << vp_path, vp_base, mwVars, cmdVars >>

NextPath == CallValidatePath

SpecPath == InitPath /\ [][NextPath]_vars

-----------------------------------------------------------------------------
(* run_command on its own, called in a server whose facilities the first   *)
(* wrapped invocation has initialised                                      *)

InitCmd ==
    /\ backend \in [structlog : BOOLEAN, prometheus_client : BOOLEAN, limits : BOOLEAN]
    /\ workload = Requests
    /\ \E limit \in 1..MaxLimit : infra = LazyInit(InfraInit, limit, "disabled")
    /\ request_count = [k \in ToolNames \X Statuses |-> 0]
    /\ storage = [k \in Keys |-> 0]
    /\ files = << >>
    /\ inv = [i \in 1..MaxInv |-> IdleInv]
    /\ vp_path = << Empty >>
    /\ vp_base = WORKSPACE_PATH
    /\ vp_out = NotCalled
    /\ \E argv \in Argvs : \E proc \in ProcChoices(argv) :
          rc = [IdleCmd EXCEPT !.argv = argv, !.proc = proc]
    /\ fio = IdleFile
    /\ tl = IdleTools
    /\ mc = NewCollector
    /\ hm = NewMonitor

\* one call run_command(rc.argv)
CallRunCommand ==
    /\ ~rc.called
    /\ LET r == run_command(rc.argv, rc.proc, infra)
       IN  /\ rc' = [rc EXCEPT !.called = TRUE, !.out = r.out,
                                !.spawn_calls = r.spawn_calls, !.events = r.events]
           /\ infra' = r.infra
    /\ UNCHANGED << backend, workload, request_count, storage, files, inv, pathVars, fio, tl, mc, hm >>

NextCmd == CallRunCommand

SpecCmd == InitCmd /\ [][NextCmd]_vars

-----------------------------------------------------------------------------
(* write_file_impl and read_file_impl on one path                          *)

\* file_path arguments: "w" and "w2" (files in the sandbox root), "" (the
\* root itself) and "../e" (outside)
FileArgs == { << W >>, << W2 >>, << Empty >>, << DotDot, E >> }

Contents == UNION { [1..n -> Chars] : n \in 0..MaxContent }

\* max_size arguments: one byte, and more bytes than any content has
SizeLimits == { 1, 2 * MaxContent + 2 }

InitFile ==
    /\ backend \in [structlog : BOOLEAN, prometheus_client : BOOLEAN, limits : BOOLEAN]
    /\ workload = Requests
    /\ infra = InfraInit
    /\ request_count = [k \in ToolNames \X Statuses |-> 0]
    /\ storage = [k \in Keys |-> 0]
    /\ files = << >>
    /\ inv = [i \in 1..MaxInv |-> IdleInv]
    /\ vp_path = << Empty >>
    /\ vp_base = WORKSPACE_PATH
    /\ vp_out = NotCalled
    /\ rc = IdleCmd
    /\ tl = IdleTools
    /\ mc = NewCollector
    /\ hm = NewMonitor
    /\ \E path \in FileArgs, content \in Contents, max_size \in SizeLimits :
          fio = [IdleFile EXCEPT !.path = path, !.content = content,
                                 !.max_size = max_size]

\* write_file_impl(fio.path, fio.content)
WriteFile ==
    /\ fio.pc = "new"
    /\ LET r == write_file_impl(fio.path, fio.content, files, FALSE)
       IN  /\ files' = r.files
           /\ fio' = [fio EXCEPT !.pc = "written", !.w = r.out]
    /\ UNCHANGED << backend, workload, infra, request_count, storage, inv,
                    pathVars, rc, tl, mc, hm >>

\* read_file_impl(fio.path, fio.max_size)
ReadFile ==
    /\ fio.pc \in { "new", "written" }
    /\ LET r == read_file_impl(fio.path, fio.max_size, files, FALSE)
       IN  fio' = [fio EXCEPT !.pc = "read", !.r = r.out, !.read_calls = r.read_calls]
    /\ UNCHANGED << backend, workload, infra, request_count, storage, files, inv,
                    pathVars, rc, tl, mc, hm >>

NextFile == WriteFile \/ ReadFile

SpecFile == InitFile /\ [][NextFile]_vars

-----------------------------------------------------------------------------
(* The built-in operations called one after another, in a server whose     *)
(* facilities are initialised and whose sandbox holds one binary file      *)

\* path arguments: ".", "w", "w2" (the binary file), "../e" and a path with
\* a NUL character
ToolPaths == { << Dot >>, << W >>, << W2 >>, << DotDot, E >>, << Nul >> }

\* /w/w2 holds a byte that is not UTF-8
BinaryFile == [p \in { << W, W2 >> } |-> << "0xA9" >>]

InitTools ==
    /\ backend \in [structlog : BOOLEAN, prometheus_client : BOOLEAN, limits : BOOLEAN]
    /\ workload = Requests
    /\ \E limit \in 1..MaxLimit : infra = LazyInit(InfraInit, limit, "disabled")
    /\ request_count = [k \in ToolNames \X Statuses |-> 0]
    /\ storage = [k \in Keys |-> 0]
    /\ files = BinaryFile
    /\ inv = [i \in 1..MaxInv |-> IdleInv]
    /\ vp_path = << Empty >>
    /\ vp_base = WORKSPACE_PATH
    /\ vp_out = NotCalled
    /\ rc = IdleCmd
    /\ fio = IdleFile
    /\ tl = IdleTools
    /\ mc = NewCollector
    /\ hm = NewMonitor

\* the call is recorded as the last one
TakeCall(op, path, out) ==
    /\ tl.n < MaxCalls
    /\ tl' = [ n |-> tl.n + 1,
               prev_failed |-> tl.last.out.status = "raise",
               last |-> [op |-> op, path |-> path, out |-> out] ]
    /\ UNCHANGED << backend, workload, infra, request_count, storage, inv,
                    pathVars, rc, fio, mc, hm >>

CallListFiles ==
    \E d \in ToolPaths, fault \in BOOLEAN :
        /\ TakeCall("list_files", d, list_files_impl(d, files, fault))
        /\ UNCHANGED files

CallReadFile ==
    \E path \in ToolPaths, max_size \in SizeLimits, fault \in BOOLEAN :
        /\ TakeCall("read_file", path, read_file_impl(path, max_size, files, fault).out)
        /\ UNCHANGED files

CallWriteFile ==
    \E path \in ToolPaths, fault \in BOOLEAN :
        LET r == write_file_impl(path, << "a" >>, files, fault)
        IN  /\ TakeCall("write_file", path, r.out)
            /\ files' = r.files

CallRunShellCommand ==
    \E d \in ToolPaths, command \in { << >>, << "x" >> }, proc \in ProcOutcomes :
        /\ TakeCall("run_shell_command", d,
                    run_shell_command_impl(command, d, proc, files, infra).out)
        /\ UNCHANGED files

CallReadResource ==
    \E path \in ToolPaths, fault \in BOOLEAN :
        /\ TakeCall("read_file_resource", path, read_file_resource(path, files, fault))
        /\ UNCHANGED files

NextTools ==
    \/ CallListFiles
    \/ CallReadFile
    \/ CallWriteFile
    \/ CallRunShellCommand
    \/ CallReadResource

SpecTools == InitTools /\ [][NextTools]_vars

-----------------------------------------------------------------------------
(* MetricsCollector: record_request_start and record_request_end          *)

CollectorTools == { "demo_tool", "other_tool" }

\* f"{tool_name}_{int(time.time() * 1000)}"
RequestId(tool_name, ms) == << tool_name, ms >>

UnknownId == << "demo_tool", MaxMs + 1 >>

\* the last HistoryCap entries are kept
\* seq[-1000:]
KeepLast(seq) ==
    IF Len(seq) > HistoryCap
    THEN SubSeq(seq, Len(seq) - HistoryCap + 1, Len(seq))
    ELSE seq

\* the position of the first entry of the history with this id, 0 if none
RECURSIVE FindFrom(_, _, _)
FindFrom(history, id, k) ==
    IF k > Len(history) THEN 0
    ELSE IF history[k].id = id THEN k
    ELSE FindFrom(history, id, k + 1)

FirstWithId(history, id) == FindFrom(history, id, 1)

\* max(0, self.active_requests - 1)
Decrement(active_requests) ==
    IF active_requests > 0 THEN active_requests - 1 ELSE 0

\* record_request_start(tool_name): the new fields and the id returned
record_request_start(c, tool_name) ==
    LET request_id == RequestId(tool_name, c.now)
    IN  [ c EXCEPT
            !.active_requests = @ + 1,
            !.total_requests = @ + 1,
            !.request_history = Append(@, [ id |-> request_id, tool |-> tool_name,
                                            status |-> "active",
                                            no |-> c.total_requests + 1,
                                            finalized |-> 0 ]),
            !.handles = Append(@, [ id |-> request_id, no |-> c.total_requests + 1,
                                    ended |-> FALSE ]) ]

\* record_request_end(request_id, success)
record_request_end(c, request_id, success) ==
    LET k == FirstWithId(c.request_history, request_id)
        updated ==
            IF k = 0 THEN c
            ELSE [ c EXCEPT
                     !.request_history[k].status = IF success THEN "success" ELSE "error",
                     !.request_history[k].finalized = @ + 1,
                     !.response_times = Append(@, c.request_history[k].no),
                     !.error_history =
                         IF success THEN @ ELSE Append(@, c.request_history[k].tool) ]
    IN  [ updated EXCEPT
            !.active_requests = Decrement(c.active_requests),
            !.request_history = KeepLast(@),
            !.response_times = KeepLast(@),
            !.error_history = KeepLast(@),
            !.end_calls = @ + 1 ]

InitCollector ==
    /\ backend = [structlog |-> FALSE, prometheus_client |-> FALSE, limits |-> FALSE]
    /\ workload = Requests
    /\ infra = InfraInit
    /\ request_count = [k \in ToolNames \X Statuses |-> 0]
    /\ storage = [k \in Keys |-> 0]
    /\ files = << >>
    /\ inv = [i \in 1..MaxInv |-> IdleInv]
    /\ vp_path = << Empty >>
    /\ vp_base = WORKSPACE_PATH
    /\ vp_out = NotCalled
    /\ rc = IdleCmd
    /\ fio = IdleFile
    /\ tl = IdleTools
    /\ mc = NewCollector
    /\ hm = NewMonitor

collectorFrame ==
    << backend, workload, infra, request_count, storage, files, inv, pathVars,
       rc, fio, tl, hm >>

\* a millisecond passes
ClockTick ==
    /\ mc.now < MaxMs
    /\ mc' = [mc EXCEPT !.now = @ + 1]
    /\ UNCHANGED collectorFrame

CallRecordRequestStart ==
    /\ mc.total_requests < MaxStarts
    /\ \E tool_name \in CollectorTools : mc' = record_request_start(mc, tool_name)
    /\ UNCHANGED collectorFrame

\* the holder of an id returned by record_request_start ends its request
CallRecordRequestEnd ==
    /\ mc.end_calls < MaxEnds
    /\ \E h \in 1..Len(mc.handles), success \in BOOLEAN :
         /\ ~mc.handles[h].ended
         /\ mc' = [ record_request_end(mc, mc.handles[h].id, success)
                      EXCEPT !.handles[h].ended = TRUE ]
    /\ UNCHANGED collectorFrame

\* record_request_end is called with an id that was never returned, or with
\* the id of a request its holder has ended already
CallRecordRequestEndStray ==
    /\ mc.end_calls < MaxEnds
    /\ \E id \in { UnknownId } \cup
                 { mc.handles[h].id : h \in { g \in 1..Len(mc.handles) : mc.handles[g].ended } },
          success \in BOOLEAN :
         mc' = [ record_request_end(mc, id, success) EXCEPT !.stray_calls = @ + 1 ]
    /\ UNCHANGED collectorFrame

NextCollector ==
    \/ ClockTick
    \/ CallRecordRequestStart
    \/ CallRecordRequestEnd
    \/ CallRecordRequestEndStray

SpecCollector == InitCollector /\ [][NextCollector]_vars

-----------------------------------------------------------------------------
(* HealthMonitor: start_monitoring, stop_monitoring and _monitor_loop     *)

\* asyncio.create_task(self._monitor_loop(interval)): the task has not run
\* yet and no cancellation is requested
NewTask == [ pc |-> "pending", cancel_requested |-> FALSE ]

\* the tasks whose _monitor_loop has not returned
LiveTasks == { t \in 1..Len(hm.tasks) : hm.tasks[t].pc # "done" }

InitMonitor ==
    /\ backend = [structlog |-> FALSE, prometheus_client |-> FALSE, limits |-> FALSE]
    /\ workload = Requests
    /\ infra = InfraInit
    /\ request_count = [k \in ToolNames \X Statuses |-> 0]
    /\ storage = [k \in Keys |-> 0]
    /\ files = << >>
    /\ inv = [i \in 1..MaxInv |-> IdleInv]
    /\ vp_path = << Empty >>
    /\ vp_base = WORKSPACE_PATH
    /\ vp_out = NotCalled
    /\ rc = IdleCmd
    /\ fio = IdleFile
    /\ tl = IdleTools
    /\ mc = NewCollector
    /\ hm = NewMonitor

monitorFrame ==
    << backend, workload, infra, request_count, storage, files, inv, pathVars,
       rc, fio, tl, mc >>

\* start_monitoring(interval)
StartMonitoring ==
    /\ Len(hm.tasks) < MaxTasks
    /\ hm.stop_pc = "idle"
    /\ hm' = [ hm EXCEPT !.running = TRUE,
                         !.tasks = Append(@, NewTask),
                         !.monitor_task = Len(hm.tasks) + 1,
                         !.stopped = FALSE ]
    /\ UNCHANGED monitorFrame

\* stop_monitoring() up to `await self.monitor_task`; with no task, or a
\* task that has returned already, it completes at once
StopMonitoring ==
    /\ hm.stop_pc = "idle"
    /\ LET t == hm.monitor_task
       IN  IF t = 0
           THEN hm' = [ hm EXCEPT !.running = FALSE, !.stopped = TRUE ]
           ELSE IF hm.tasks[t].pc = "done"
           THEN hm' = [ hm EXCEPT !.running = FALSE, !.stopped = TRUE ]
           ELSE hm' = [ hm EXCEPT !.running = FALSE,
                                  !.tasks[t].cancel_requested = TRUE,
                                  !.stop_pc = "awaiting",
                                  !.stop_target = t ]
    /\ UNCHANGED monitorFrame

\* the awaited task has ended: stop_monitoring returns
StopReturns ==
    /\ hm.stop_pc = "awaiting"
    /\ hm.tasks[hm.stop_target].pc = "done"
    /\ hm' = [ hm EXCEPT !.stop_pc = "idle", !.stopped = TRUE ]
    /\ UNCHANGED monitorFrame

\* one turn of `while self.running`: _check_health runs, adding an alert for
\* a metric in WARNING or CRITICAL, and the task sleeps
LoopIteration(t) ==
    /\ hm.tasks[t].pc \in { "pending", "sleeping" }
    /\ ~hm.tasks[t].cancel_requested
    /\ hm.running
    /\ hm.checks < MaxChecks
    /\ \E alert \in { 0, 1 } :
         hm' = [ hm EXCEPT !.tasks[t].pc = "sleeping",
                           !.checks = @ + 1,
                           !.alerts = @ + alert,
                           !.late_checks = @ + (IF hm.stopped THEN 1 ELSE 0),
                           !.late_alerts = @ + (IF hm.stopped THEN alert ELSE 0) ]
    /\ UNCHANGED monitorFrame

\* the task ends: it was cancelled before it ran or during its sleep
\* (CancelledError, break), or it finds self.running false
LoopExit(t) ==
    /\ hm.tasks[t].pc \in { "pending", "sleeping" }
    /\ hm.tasks[t].cancel_requested \/ ~hm.running
    /\ hm' = [ hm EXCEPT !.tasks[t].pc = "done" ]
    /\ UNCHANGED monitorFrame

NextMonitor ==
    \/ StartMonitoring
    \/ StopMonitoring
    \/ StopReturns
    \/ \E t \in 1..Len(hm.tasks) : LoopIteration(t)
    \/ \E t \in 1..Len(hm.tasks) : LoopExit(t)

SpecMonitor == InitMonitor /\ [][NextMonitor]_vars

-----------------------------------------------------------------------------
(* Properties of validate_path, checked under SpecPath                     *)

CanonicalRoot == Resolve(<< >>, vp_base)

\* the call was made with a path that canonicalizes and whose canonical
\* form lies outside the root
EscapeCase ==
    /\ vp_out # NotCalled
    /\ ~HasNul(vp_path)
    /\ ~Beneath(Canonical(vp_path, vp_base), CanonicalRoot)

\* the error message names the escape
ReportsEscape(out) ==
    \E k \in 1..Len(out.msg) : out.msg[k] = "Path {path} is outside allowed directory"

\* the error message is the one of a canonicalization failure
ReportsInvalidPath(out) ==
    Len(out.msg) >= 1 /\ out.msg[1] = "Invalid path {path}: "

\* C1: whenever validate_path returns a path, that path is the canonical
\* sandbox root or lies beneath it component by component.
C1_ReturnedPathInsideRoot ==
    vp_out.status = "ok" => Beneath(vp_out.path, CanonicalRoot)

\* C2: every caller path whose canonical form lies outside the root, relative
\* or absolute, is refused with the 'outside allowed directory' error and no
\* path is returned.
C2_EscapeIsRefused ==
    EscapeCase => /\ vp_out.status = "raise"
                  /\ ReportsEscape(vp_out)
                  /\ vp_out.path = << >>

\* C3: a canonicalization failure is reported as InvalidPath and never as
\* PathEscape, and an escape is reported as PathEscape and never as
\* InvalidPath.
C3_InvalidPathDistinctFromEscape ==
    vp_out.status = "raise" =>
        IF HasNul(vp_path)
        THEN ReportsInvalidPath(vp_out) /\ ~ReportsEscape(vp_out)
        ELSE ReportsEscape(vp_out) /\ ~ReportsInvalidPath(vp_out)

\* C19: for every sandbox root, validate_path("") returns the canonical
\* sandbox root itself and raises no error.
C19_EmptyPathIsRoot ==
    (vp_out # NotCalled /\ vp_path = << Empty >>) =>
        vp_out = Returned(CanonicalRoot)

C19_Witness ==
    /\ vp_path = << Empty >>
    /\ vp_base = << E, W >>
    /\ vp_out = Returned(<< E, W >>)

\* the traversal attempts of the test suite against the root /w:
\* "../../e", "../../../e", "w/../../e", "/e" and "\..\..\e"
TraversalAttempts ==
    { << DotDot, DotDot, E >>,
      << DotDot, DotDot, DotDot, E >>,
      << W, DotDot, DotDot, E >>,
      << Empty, E >>,
      << BS >> }

\* C20: against the root /w, validate_path rejects every traversal attempt
\* with the 'outside allowed directory' error, the attempt written with
\* backslash separators and the one that first descends and then climbs out
\* included.
C20_TraversalAttemptsRejected ==
    (vp_out # NotCalled /\ vp_base = << W >> /\ vp_path \in TraversalAttempts) =>
        /\ vp_out.status = "raise"
        /\ ReportsEscape(vp_out)

-----------------------------------------------------------------------------
(* Properties of the monitoring wrapper, checked under Spec                *)

Invs == 1..MaxInv
Admitted(i) == inv[i].pc \in { "EXECUTING", "COMPLETED", "FAILED" }
KeyOf(i) == << inv[i].req.tool, ClientId(inv[i].req) >>
Has(seq, x) == \E k \in 1..Len(seq) : seq[k] = x
Pos(seq, x) == CHOOSE k \in 1..Len(seq) : seq[k] = x

\* C4: when the limiter is active and the key's window count is already at
\* the limit, the invocation is rejected with RateLimitExceeded, the
\* implementation is not called and the files are left as they were; a
\* rejected invocation never calls the implementation.
C4_RejectedBeforeExecution ==
    /\ [](\A i \in Invs : inv[i].pc = "REJECTED" =>
            /\ inv[i].impl_calls = 0
            /\ ~Has(inv[i].events, "call:func")
            /\ inv[i].outcome.type = "RateLimitExceeded")
    /\ [][\A i \in Invs :
            ( /\ inv[i].pc = "idle"
              /\ inv'[i].pc # "idle"
              /\ RATE_LIMITING
              /\ infra.RATE_LIMITER
              /\ storage[<< inv'[i].req.tool, ClientId(inv'[i].req) >>]
                     >= infra.DEFAULT_RATE_LIMIT )
            => ( /\ inv'[i].pc = "REJECTED"
                 /\ inv'[i].outcome.type = "RateLimitExceeded"
                 /\ inv'[i].impl_calls = 0
                 /\ files' = files )]_vars

C4_Witness ==
    \E i \in Invs :
        /\ inv[i].pc = "REJECTED"
        /\ inv[i].req.tool = "write_file"
        /\ inv[i].req.path = << W >>
        /\ << W, W >> \notin DOMAIN files

\* C5: with a limit of N per window, the k-th invocation of one operation by
\* one client inside a window is admitted iff k <= N, every earlier
\* invocation counting whatever its outcome.
C5_AdmittedIffWithinLimit ==
    \A i \in Invs :
        /\ (RATE_LIMITING /\ inv[i].pc # "idle") => inv[i].ordinal > 0
        /\ inv[i].ordinal > 0 =>
               (Admitted(i) <=> inv[i].ordinal <= infra.DEFAULT_RATE_LIMIT)

\* N = 2: the first two invocations of write_file by the default client were
\* admitted (one completed, one failed in the implementation), the third is
\* rejected
C5_Witness ==
    /\ infra.DEFAULT_RATE_LIMIT = 2
    /\ \A i \in 1..3 : inv[i].req.tool = "write_file" /\ inv[i].ordinal = i
    /\ inv[1].pc = "COMPLETED"
    /\ inv[2].pc = "FAILED"
    /\ inv[3].pc = "REJECTED"

\* C6: for every admitted invocation that has ended, the caller receives
\* exactly what the implementation produced: the same value, or the same
\* error kind with the same message.
C6_OutcomePassedThrough ==
    \A i \in Invs :
        inv[i].pc \in { "COMPLETED", "FAILED" } =>
            /\ inv[i].impl_calls = 1
            /\ inv[i].outcome = inv[i].impl_outcome
            /\ (inv[i].pc = "COMPLETED") <=> (inv[i].impl_outcome.status = "ok")

C6_Witness ==
    \E i, j \in Invs :
        /\ inv[i].pc = "FAILED"
        /\ inv[i].outcome.type = "MCPError"
        /\ inv[i].outcome.msg[1] = "Failed to write file: "
        /\ inv[j].pc = "COMPLETED"
        /\ inv[j].outcome.value = "Success"

\* C7: however many invocations run the first-use initialization while
\* others are still in flight, each facility is constructed exactly once and
\* every invocation past the initialization finds the facilities complete.
C7_InitializedExactlyOnce ==
    /\ infra.logging_configs <= 1
    /\ infra.instrument_sets <= 1
    /\ infra.port_binds <= 1
    /\ infra.limiters <= 1
    /\ (\E i \in Invs : inv[i].pc # "idle") =>
           /\ infra.logging_configs = 1 /\ infra.logger # "None"
           /\ METRICS_ENABLED => (infra.instrument_sets = 1 /\ infra.REQUEST_COUNT)
           /\ RATE_LIMITING =>
                  /\ infra.limiters = 1
                  /\ infra.RATE_LIMITER
                  /\ infra.DEFAULT_RATE_LIMIT >= 1

C7_Witness ==
    /\ backend.structlog /\ backend.prometheus_client /\ backend.limits
    /\ \A i \in 1..3 : inv[i].pc = "EXECUTING"
    /\ infra.port_binds = 1
    /\ infra.limiters = 1

\* C8: when the rate-limiting backend is unavailable no invocation is
\* rejected, and neither initialization nor invocation raises an error
\* because the backend is missing.
C8_PermissiveWithoutBackend ==
    ~backend.limits =>
        /\ ~infra.import_error
        /\ ~infra.RATE_LIMITER
        /\ \A i \in Invs :
              /\ inv[i].pc # "REJECTED"
              /\ inv[i].outcome.type \notin { "RateLimitExceeded", "ImportError" }
              /\ inv[i].pc \in { "COMPLETED", "FAILED" } =>
                     inv[i].outcome = inv[i].impl_outcome

C8_Witness ==
    /\ ~backend.limits
    /\ \A i \in 1..3 :
          /\ inv[i].pc = "COMPLETED"
          /\ inv[i].req.tool = "test_function"
          /\ inv[i].req.client_kw = NoClient

AllowedTraces ==
    { << "RECEIVED", "RATE_CHECK", "REJECTED" >>,
      << "RECEIVED", "RATE_CHECK", "EXECUTING", "COMPLETED" >>,
      << "RECEIVED", "RATE_CHECK", "EXECUTING", "FAILED" >> }

IsPrefix(s, t) == Len(s) <= Len(t) /\ SubSeq(t, 1, Len(s)) = s

\* C9: every invocation follows RECEIVED -> RATE_CHECK -> (REJECTED or
\* EXECUTING) -> (COMPLETED or FAILED); the implementation is called only
\* after the rate check and at most once, and an invocation in a terminal
\* state stays in it and is not run again.
C9_InvocationLifecycle ==
    /\ [](\A i \in Invs :
            /\ \E t \in AllowedTraces : IsPrefix(inv[i].trace, t)
            /\ inv[i].pc # "idle" => inv[i].trace[Len(inv[i].trace)] = inv[i].pc
            /\ inv[i].impl_calls <= 1
            /\ inv[i].impl_calls = 1 => Has(inv[i].trace, "EXECUTING"))
    /\ [][\A i \in Invs :
            inv[i].pc \in Terminal =>
                /\ inv'[i].pc = inv[i].pc
                /\ inv'[i].trace = inv[i].trace
                /\ inv'[i].impl_calls = inv[i].impl_calls
                /\ inv'[i].outcome = inv[i].outcome]_vars

C9_Witness ==
    /\ inv[1].trace = << "RECEIVED", "RATE_CHECK", "EXECUTING", "FAILED" >>
    /\ inv[2].trace = << "RECEIVED", "RATE_CHECK", "REJECTED" >>
    /\ inv[3].trace = << "RECEIVED", "RATE_CHECK", "EXECUTING", "COMPLETED" >>

EndRecords ==
    { "metric:success", "metric:error", "log:tool_request_completed",
      "log:tool_request_failed", "log:Tool failed" }

\* C10: for every admitted invocation, in either logging mode, the
\* 'started' entry is emitted, and before each of the invocation's end
\* records.
C10_StartBeforeEnd ==
    \A i \in Invs :
        Admitted(i) =>
            /\ Has(inv[i].events, "log:tool_request_started")
            /\ \A k \in 1..Len(inv[i].events) :
                   inv[i].events[k] \in EndRecords =>
                       Pos(inv[i].events, "log:tool_request_started") < k

\* C11: after its first call each of _setup_logging, _setup_metrics and
\* _setup_rate_limiting is a no-op, with its backend available or not: once
\* some invocation has run the initialization, no later step constructs
\* anything, binds a port or writes an initialization log entry.
C11_LaterInitIsNoOp ==
    [][(\E i \in Invs : inv[i].pc # "idle") => infra' = infra]_vars

\* C12: each facility is active exactly when its own backend is available:
\* once the initialization has run, metrics are active iff prometheus_client
\* is importable, structured logging iff structlog is, and rate limiting iff
\* limits is.
C12_FacilityFollowsOwnBackend ==
    (\E i \in Invs : inv[i].pc # "idle") =>
        /\ infra.REQUEST_COUNT <=> backend.prometheus_client
        /\ (infra.logger = "structlog") <=> backend.structlog
        /\ infra.RATE_LIMITER <=> backend.limits

\* the client identifier the invocation carries in its arguments, by
\* keyword or by position, 'default' when it carries none
SuppliedClient(req) ==
    IF req.client_kw # NoClient THEN req.client_kw
    ELSE IF req.client_pos # NoClient THEN req.client_pos
    ELSE "default"

\* C14: the rate-limit key of an invocation is its operation name with the
\* client identifier from its arguments, passed by keyword or by position,
\* or 'default'; so the hits stored under a key are exactly the hits of that
\* operation by that client, and no client or operation uses another's quota.
C14_KeyIsOperationAndClient ==
    /\ \A i \in Invs :
          inv[i].key # << >> =>
              inv[i].key = << inv[i].req.tool, SuppliedClient(inv[i].req) >>
    /\ \A k \in Keys :
          storage[k] = Cardinality({ i \in Invs :
                          /\ inv[i].in_window
                          /\ << inv[i].req.tool, SuppliedClient(inv[i].req) >> = k })

-----------------------------------------------------------------------------
(* Properties of run_command, checked under SpecCmd                        *)

IsEmptyCommand(out) ==
    /\ out.status = "raise" /\ out.type = "MCPError"
    /\ out.msg = << "Empty or invalid command provided" >>

IsCommandTimeout(out) ==
    /\ out.status = "raise" /\ out.type = "MCPError"
    /\ out.msg[1] = "Command timed out after {timeout} seconds: {command_str}"

IsCommandExecutionFailed(out) ==
    /\ out.status = "raise" /\ out.type = "MCPError"
    /\ out.msg[1] = "Command execution failed: {command_str} - "

\* C15: run_command raises EmptyCommand and makes no attempt to start a
\* process whenever the argument vector is empty or its first element is
\* empty or whitespace only.
C15_BlankCommandRejected ==
    (rc.called /\ (rc.argv = << >> \/ IsBlank(rc.argv[1]))) =>
        /\ IsEmptyCommand(rc.out)
        /\ rc.spawn_calls = 0

-----------------------------------------------------------------------------
(* Properties of write_file and read_file, checked under SpecFile          *)

\* the path argument canonicalizes to the sandbox root or beneath it
InsideSandbox(path) ==
    /\ ~HasNul(path)
    /\ Beneath(Canonical(path, WORKSPACE_PATH), Resolve(<< >>, WORKSPACE_PATH))

\* write_file then read_file of the same path have run
WrittenThenRead == fio.pc = "read" /\ fio.w.status # "none"

RoundTrips ==
    /\ fio.w.status = "ok"
    /\ fio.r.status = "ok"
    /\ fio.r.value.status = "Success"
    /\ fio.r.value.content = fio.content

\* C18 as stated: for every path inside the sandbox and every text content,
\* write_file followed by read_file of the same path returns exactly the
\* content written, with a success status.
C18_RoundTripEveryContent ==
    (WrittenThenRead /\ InsideSandbox(fio.path)) => RoundTrips

\* C18 amended: for every path inside the sandbox that names no directory and
\* every text content that contains no carriage return and whose UTF-8
\* encoding is at most max_size bytes long, write_file followed by read_file of
\* the same path returns exactly the content written, with a success status.
C18_RoundTrip ==
    ( /\ WrittenThenRead
      /\ InsideSandbox(fio.path)
      /\ Canonical(fio.path, WORKSPACE_PATH) \notin Directories
      /\ \A k \in 1..Len(fio.content) : fio.content[k] # "\r"
      /\ Len(EncodeUTF8(fio.content)) <= fio.max_size ) => RoundTrips

C18_Witness ==
    /\ fio.pc = "read"
    /\ fio.path = << W2 >>
    /\ fio.content = << "eacute", "\n" >>
    /\ fio.r.status = "ok"
    /\ fio.r.value.content = << "eacute", "\n" >>
    /\ fio.r.value.size = 3

IsTooLarge(out) ==
    /\ out.status = "raise" /\ out.type = "MCPError"
    /\ Has(out.msg, "File too large: {file_size} bytes (max: {max_size})")

\* C26: read_file of an existing file fails with TooLarge exactly when the
\* file's size in bytes is strictly greater than max_size; a file of exactly
\* max_size bytes is read and returned, and a file that is too large is
\* never read.
C26_TooLargeIffOverLimit ==
    ( /\ fio.pc = "read"
      /\ InsideSandbox(fio.path)
      /\ Canonical(fio.path, WORKSPACE_PATH) \in DOMAIN files ) =>
        LET size == Len(files[Canonical(fio.path, WORKSPACE_PATH)])
        IN  /\ IsTooLarge(fio.r) <=> (size > fio.max_size)
            /\ size > fio.max_size => fio.read_calls = 0
            /\ size = fio.max_size =>
                  /\ fio.r.status = "ok"
                  /\ fio.r.value.size = size
                  /\ fio.read_calls = 1

C26_Witness ==
    /\ fio.pc = "read"
    /\ fio.path = << W >>
    /\ fio.content = << "a" >>
    /\ fio.max_size = 1
    /\ fio.r.status = "ok"
    /\ fio.r.value.size = 1

-----------------------------------------------------------------------------
(* Properties of run_shell_command behind the wrapper, checked under       *)
(* SpecShell                                                               *)

\* the log entries that record an error
ErrorLogs ==
    { "log:tool_request_failed", "log:Tool failed",
      "log:command_execution_timeout", "log:command_execution_error",
      "log:rate_limit_exceeded", "log:Rate limit exceeded" }

ErrorLogCount(events) ==
    Cardinality({ k \in 1..Len(events) : events[k] \in ErrorLogs })

\* C13: for every failing invocation, in either logging mode, exactly one
\* error log entry is written for the error, a command timeout or execution
\* failure detected in run_command and passed on through run_shell_command
\* and the wrapper included.
C13_ErrorLoggedOnce ==
    \A i \in Invs :
        inv[i].pc \in { "FAILED", "REJECTED" } => ErrorLogCount(inv[i].events) = 1

\* the directory argument names an existing directory of the sandbox
InExistingDirectory(req) ==
    /\ validate_path(req.path, WORKSPACE_PATH).status = "ok"
    /\ Exists(validate_path(req.path, WORKSPACE_PATH).path, files)

\* C16: run_shell_command with an empty or whitespace-only command string in
\* an existing sandbox directory fails with the EmptyCommand error, raised as
\* an MCPError, and run_command is not called.
C16_BlankShellCommand ==
    \A i \in Invs :
        ( /\ inv[i].pc \in { "COMPLETED", "FAILED" }
          /\ inv[i].req.tool = "run_shell_command"
          /\ IsBlank(inv[i].req.command)
          /\ InExistingDirectory(inv[i].req) ) =>
            /\ inv[i].pc = "FAILED"
            /\ inv[i].outcome.status = "raise"
            /\ inv[i].outcome.type = "MCPError"
            /\ Has(inv[i].outcome.msg, "Empty command provided")
            /\ ~Has(inv[i].events, "call:run_command")

C16_Witness ==
    /\ inv[1].pc = "FAILED"
    /\ inv[1].req.command = << " ", "\t" >>
    /\ inv[1].req.path = << Dot >>
    /\ inv[1].outcome.msg = << "Failed to execute command: ", "Empty command provided" >>
    /\ inv[2].pc = "COMPLETED"
    /\ Has(inv[2].events, "call:run_command")

-----------------------------------------------------------------------------
(* Properties of health_check, checked under SpecHealth                    *)

\* C21: in every combination of available packages, health_check reports
\* each of metrics, structured logging and rate limiting as enabled iff that
\* facility is active when the call is made.
C21_HealthReportsActiveFacilities ==
    \A i \in Invs :
        (inv[i].pc = "COMPLETED" /\ inv[i].req.tool = "health_check") =>
            /\ inv[i].outcome.value.metrics_enabled <=> infra.REQUEST_COUNT
            /\ inv[i].outcome.value.structured_logging <=> (infra.logger = "structlog")
            /\ inv[i].outcome.value.rate_limiting_enabled <=> infra.RATE_LIMITER

C21_Witness ==
    /\ backend = [structlog |-> FALSE, prometheus_client |-> TRUE, limits |-> TRUE]
    /\ inv[1].pc = "COMPLETED"
    /\ inv[1].req.tool = "health_check"
    /\ ~inv[1].outcome.value.metrics_enabled
    /\ inv[1].outcome.value.rate_limiting_enabled

-----------------------------------------------------------------------------
(* Properties of the rate limiter's shared window storage                  *)

\* invocations of the key whose rate check was made in the current window
\* and that went on to the implementation
ReachedImpl(key) ==
    { j \in 1..MaxInv :
        /\ inv[j].in_window
        /\ inv[j].key = key
        /\ inv[j].pc \in { "EXECUTING", "COMPLETED", "FAILED" } }

\* C23: however concurrent invocations of one rate limit key interleave, at
\* most DEFAULT_RATE_LIMIT of them reach the implementation in one window;
\* every hit is counted (the key's counter is the number of hits made in
\* the window), so no two hits saw the same count.
C23_AtMostLimitReachImpl ==
    RateCheckActive(infra) =>
        \A k \in Keys :
            /\ storage[k] = HitsSoFar(k)
            /\ Cardinality(ReachedImpl(k)) <= infra.DEFAULT_RATE_LIMIT
            /\ \A i, j \in 1..MaxInv :
                 (/\ i # j
                  /\ inv[i].in_window /\ inv[j].in_window
                  /\ inv[i].key = k /\ inv[j].key = k)
                 => inv[i].ordinal # inv[j].ordinal

\* three invocations of one key are in flight in one window of limit 2: two
\* are executing at the same time and the third was rejected
C23_Witness ==
    /\ RateCheckActive(infra)
    /\ infra.DEFAULT_RATE_LIMIT = 2
    /\ inv[1].pc = "EXECUTING" /\ inv[2].pc = "EXECUTING" /\ inv[3].pc = "REJECTED"
    /\ inv[1].key = inv[2].key /\ inv[2].key = inv[3].key
    /\ inv[1].in_window /\ inv[2].in_window /\ inv[3].in_window

-----------------------------------------------------------------------------
(* Properties of the request counter                                       *)

\* the invocations of the tool that have terminated
TerminatedOf(tool) ==
    { i \in 1..MaxInv : inv[i].req.tool = tool /\ inv[i].pc \in Terminal }

\* the label under which the wrapper counts an invocation that ended so
LabelOf(pc) ==
    CASE pc = "COMPLETED" -> "success"
      [] pc = "FAILED"    -> "error"
      [] pc = "REJECTED"  -> "rate_limited"

\* the labels under which the invocation was counted, in order
MetricEvents(i) ==
    SelectSeq(inv[i].events,
              LAMBDA e : e \in { "metric:success", "metric:error", "metric:rate_limited" })

\* C25: with metrics active every terminated invocation is counted once,
\* under the one label of its outcome, and the three counts of an operation
\* sum to the number of its terminated invocations.
C25_CountedOnceUnderOneLabel ==
    METRICS_ENABLED =>
        /\ \A tool \in ToolNames :
             /\ request_count[<< tool, "success" >>]
                  + request_count[<< tool, "error" >>]
                  + request_count[<< tool, "rate_limited" >>]
                = Cardinality(TerminatedOf(tool))
             /\ \A st \in Statuses :
                  request_count[<< tool, st >>]
                    = Cardinality({ i \in TerminatedOf(tool) : LabelOf(inv[i].pc) = st })
        /\ \A i \in 1..MaxInv :
             inv[i].pc \in Terminal =>
                MetricEvents(i) = << "metric:" \o LabelOf(inv[i].pc) >>

\* with a limit of 2, three invocations of write_file ended: one returned,
\* one raised and one was rejected
C25_Witness ==
    /\ METRICS_ENABLED
    /\ request_count[<< "write_file", "success" >>] = 1
    /\ request_count[<< "write_file", "error" >>] = 1
    /\ request_count[<< "write_file", "rate_limited" >>] = 1
    /\ \A i \in 1..3 : inv[i].req.tool = "write_file" /\ inv[i].pc \in Terminal

-----------------------------------------------------------------------------
(* Properties of the built-in operations, checked under SpecTools          *)

\* C22: every failure of list_files, read_file, write_file, run_shell_command
\* and read_file_resource reaches the caller as an MCPError, whatever the
\* collaborator raised; a failed call changes neither the files nor the
\* facilities, and the next call is served.
C22_FailuresAreMCPError ==
    /\ [](tl.last.out.status = "raise" => tl.last.out.type = "MCPError")
    /\ [][(tl'.n = tl.n + 1 /\ tl'.last.out.status = "raise") =>
              (files' = files /\ infra' = infra)]_vars

C22_Witness ==
    /\ tl.n = 2
    /\ tl.prev_failed
    /\ tl.last.op = "list_files"
    /\ tl.last.out.status = "ok"
    /\ tl.last.path = << Dot >>
    /\ tl.last.out.value.files = { W2 }

-----------------------------------------------------------------------------
(* Properties of MetricsCollector, checked under SpecCollector            *)

\* C27: request_history, response_times and error_history each hold at most
\* the cap of entries (1000 in the program, HistoryCap here).
C27_HistoriesBounded ==
    /\ Len(mc.request_history) <= HistoryCap
    /\ Len(mc.response_times) <= HistoryCap
    /\ Len(mc.error_history) <= HistoryCap

\* the requests started and not yet ended by their holders
StartedNotEnded == { h \in 1..Len(mc.handles) : ~mc.handles[h].ended }

\* C28: active_requests is never negative and equals the number of requests
\* started and not yet ended; a record_request_end with an unknown or
\* already ended id leaves it unchanged.
C28_ActiveIsStartedNotEnded ==
    /\ mc.active_requests >= 0
    /\ mc.active_requests = Cardinality(StartedNotEnded)

\* the entry of the history made for request number no, as a set
EntryOf(no) ==
    { k \in 1..Len(mc.request_history) : mc.request_history[k].no = no }

\* C29: when every id is ended once by its holder, record_request_end
\* finalizes the entry of the request whose start returned the id: the entry
\* of an ended request is no longer active, the entry of a request not yet
\* ended is still active, and no entry is finalized twice.
C29_EndFinalizesOwnEntry ==
    mc.stray_calls = 0 =>
        /\ \A h \in 1..Len(mc.handles) : \A k \in EntryOf(mc.handles[h].no) :
              mc.handles[h].ended <=> mc.request_history[k].status # "active"
        /\ \A k \in 1..Len(mc.request_history) : mc.request_history[k].finalized <= 1

-----------------------------------------------------------------------------
(* Properties of HealthMonitor, checked under SpecMonitor                 *)

\* at most one task runs _monitor_loop
OneMonitorLoop == Cardinality(LiveTasks) <= 1

\* no _check_health ran and no alert was added after stop_monitoring
\* completed
QuietAfterStop == hm.late_checks = 0 /\ hm.late_alerts = 0

\* C30: at most one monitoring loop runs per HealthMonitor, and once
\* stop_monitoring has completed no health check runs and no alert is added,
\* also when start_monitoring was called more than once before the stop.
C30_OneLoopQuietAfterStop == OneMonitorLoop /\ QuietAfterStop

=============================================================================
